---- MODULE Spec2Model ----
(***************************************************************************)
(* Model of the Caffe2 importer (lib/Importer/Caffe2.cpp): the constructor *)
(* caffe2ModelLoader::caffe2ModelLoader registers the caller's tensors,    *)
(* runs loadWeights over the weights NetDef, then loadNetwork over the     *)
(* network NetDef, which dispatches every record to loadOperator and       *)
(* finally binds the first external output to a save node.                 *)
(*                                                                         *)
(* The checks of the source (assert, llvm_unreachable) are modelled as     *)
(* they are written: a failed check aborts the pass (pc = "failed") with   *)
(* the error it stands for.  Floats are modelled as integers.              *)
(***************************************************************************)
EXTENDS Integers, Sequences, FiniteSets, TLC

\* Longest operator list of the network NetDef that is explored.
MaxOps == 2
\* Longest operator list of the weights NetDef that is explored.
MaxWeights == 2

VARIABLES
  names,        \* constructor argument: the caller's tensor names
  tensors,      \* constructor argument: the caller's tensors
  weightsDef,   \* the decoded weights NetDef
  networkDef,   \* the decoded network NetDef
  nodes,        \* the host graph: every Variable and Node created so far
  nodeByName_,  \* caffe2ModelLoader::nodeByName_
  tensors_,     \* caffe2ModelLoader::tensors_ (name -> Tensor*)
  heap,         \* the Tensor objects allocated by `new Tensor()`
  root_,        \* caffe2ModelLoader::root_
  outs,         \* what was printed to llvm::outs()
  err,          \* the failed check that aborted the pass, or NoErr
  pc,           \* position in the constructor
  wi,           \* loadWeights: index of the next record of the weights NetDef
  oi,           \* loadNetwork: index of the next record of the network NetDef
  deleted       \* ~caffe2ModelLoader: how often each Tensor was deleted

vars == <<names, tensors, weightsDef, networkDef, nodes, nodeByName_, tensors_,
          heap, root_, outs, err, pc, wi, oi, deleted>>

----------------------------------------------------------------------------
(* Values *)

Names == {"data", "w", "b", "y", "z", "cw", "cb", "s", "softmax_expected"}

\* A null Node* / Tensor*: handles are positions in `nodes` / `heap`.
NoNode == 0
NoTensor == 0
NoErr == "none"

Range(s) == {s[i] : i \in DOMAIN s}

RECURSIVE Product(_)
Product(dims) == IF dims = <<>> THEN 1 ELSE Head(dims) * Product(Tail(dims))

Zeros(n) == [i \in 1..n |-> 0]

\* A default-constructed Tensor: no type, no payload.
EmptyTensor == [dims |-> <<>>, data |-> <<>>]

\* A node of the graph; attr holds the numbers its factory was called with.
MkNode(kind, name, ins, dims, data, vis) ==
  [kind |-> kind, name |-> name, ins |-> ins, dims |-> dims, data |-> data,
   vis |-> vis, attr |-> <<>>]

WithAttr(node, attr) == [node EXCEPT !.attr = attr]

\* A caffe2::Argument carrying a list (ints or floats) and no scalar.
Arg(name, ints, floats) ==
  [name |-> name, ints |-> ints, floats |-> floats, has_i |-> FALSE, i |-> 0,
   has_f |-> FALSE, f |-> 0, has_s |-> FALSE, s |-> ""]

\* A caffe2::Argument carrying the integer i.
IntArg(name, i) == [Arg(name, <<>>, <<>>) EXCEPT !.has_i = TRUE, !.i = i]

\* A caffe2::Argument carrying the float f.
FloatArg(name, f) == [Arg(name, <<>>, <<>>) EXCEPT !.has_f = TRUE, !.f = f]

\* A caffe2::Argument carrying the string s.
StrArg(name, str) == [Arg(name, <<>>, <<>>) EXCEPT !.has_s = TRUE, !.s = str]

Op(type, input, output, arg) ==
  [type |-> type, name |-> "", input |-> input, output |-> output, arg |-> arg]

SeqUpTo(S, n) == UNION {[1..k -> S] : k \in 0..n}

----------------------------------------------------------------------------
(* Helpers of the source *)

\* getShape: copies the ints of the argument into a vector of sizes.
getShape(arg) == [i \in DOMAIN arg.ints |-> arg.ints[i]]

\* loadArgumentMap: dict[arg.name()] = &arg for every argument in order, so
\* a later argument with the same name replaces an earlier one.
loadArgumentMap(op) ==
  LET argNames == {op.arg[i].name : i \in DOMAIN op.arg}
      last(n) == CHOOSE i \in DOMAIN op.arg :
                   /\ op.arg[i].name = n
                   /\ \A j \in DOMAIN op.arg : op.arg[j].name = n => j <= i
  IN [n \in argNames |-> op.arg[last(n)]]

\* opName in loadOperator: the record's name, or its first output.
opNameOf(op) == IF op.name # "" THEN op.name ELSE op.output[1]

Fail(st, e) == [st EXCEPT !.err = e]

\* getTensorByName: asserts the name is registered, returns tensors_[name].
getTensorByName(st, name) ==
  IF st.tensors_[name] = NoTensor
    THEN [st |-> Fail(st, "UnknownTensor"), r |-> NoTensor]
    ELSE [st |-> st, r |-> st.tensors_[name]]

\* getNodeByName: the strict lookup; llvm_unreachable when absent.
getNodeByName(st, name) ==
  IF st.nodeByName_[name] # NoNode
    THEN [st |-> st, r |-> st.nodeByName_[name]]
    ELSE [st |-> Fail(st, "UnknownNode"), r |-> NoNode]

\* getOrCreateNodeByName without `nodeByName_[name] = V`: the created
\* Variable is returned but never cached.
getOrCreateNodeByName_uncached(st, name) ==
  IF st.nodeByName_[name] # NoNode
    THEN [st |-> st, r |-> st.nodeByName_[name]]
    ELSE LET t == getTensorByName(st, name) IN
         IF t.st.err # NoErr
           THEN [st |-> t.st, r |-> NoNode]
           ELSE [st |-> [st EXCEPT
                           !.nodes = Append(@, MkNode("Variable", name, <<>>,
                                                      st.heap[t.r].dims,
                                                      st.heap[t.r].data,
                                                      "Private"))],
                 r |-> Len(st.nodes) + 1]

\* getOrCreateNodeByName: the cached node, else a private broadcast Variable
\* created from the registered tensor, filled from it and cached.
getOrCreateNodeByName(st, name) ==
  IF st.nodeByName_[name] # NoNode
    THEN [st |-> st, r |-> st.nodeByName_[name]]
    ELSE LET t == getTensorByName(st, name) IN
         IF t.st.err # NoErr
           THEN [st |-> t.st, r |-> NoNode]
           ELSE LET T == st.heap[t.r]
                    V == Len(st.nodes) + 1
                IN [st |-> [st EXCEPT
                              !.nodes = Append(@, MkNode("Variable", name, <<>>,
                                                         T.dims, T.data, "Private")),
                              !.nodeByName_[name] = V],
                    r |-> V]

\* The loop saving the outputs stopping after the first output.
saveOutputs_firstOnly(st, op, N) ==
  [st EXCEPT !.nodeByName_[op.output[1]] = N]

\* "Save the outputs": nodeByName_[op.output(i)] = N for every output.
saveOutputs(st, op, N) ==
  [st EXCEPT !.nodeByName_ =
     [n \in Names |-> IF n \in Range(op.output) THEN N ELSE @[n]]]

----------------------------------------------------------------------------
(* The loader's state as one value, for the helpers above *)

Cur == [nodes |-> nodes, nodeByName_ |-> nodeByName_, tensors_ |-> tensors_,
        heap |-> heap, outs |-> outs, err |-> err]

\* The step ends in state st; the pass is aborted when st carries an error.
Commit(st) ==
  /\ nodes' = st.nodes
  /\ nodeByName_' = st.nodeByName_
  /\ tensors_' = st.tensors_
  /\ heap' = st.heap
  /\ outs' = st.outs
  /\ err' = st.err

----------------------------------------------------------------------------
(* Host tensor and graph operations used by the importer *)

Dim(dims, i) == IF i \in DOMAIN dims THEN dims[i] ELSE 0

\* Tensor::transpose(&dest, {1, 0}) of a row-major matrix.
transpose10(T) ==
  IF Len(T.dims) # 2 THEN EmptyTensor
  ELSE LET r == T.dims[1]
           c == T.dims[2]
       IN [dims |-> <<c, r>>,
           data |-> [k \in 1..(r * c) |->
                       T.data[((k - 1) % r) * c + ((k - 1) \div r) + 1]]]

\* Result dimensions of the host's node factories.
FCOutDims(inDims, wDims) == <<Dim(inDims, 1), Dim(wDims, 2)>>

\* A factory call: appends the node to the graph; its handle is the position.
createNode(st, node) == [st EXCEPT !.nodes = Append(@, node)]

----------------------------------------------------------------------------
(* loadWeights: the body of the loop over the weights NetDef *)

\* unexpectedNodeError: prints the message and the record, and returns.
unexpectedNodeError(st, op, message) ==
  [st EXCEPT !.outs = Append(@, [message |-> message, node |-> op])]

\* loadGivenTensorFill without the final assert on the number of values.
loadGivenTensorFill_unchecked(st, op) ==
  LET dict == loadArgumentMap(op)
      T == Len(st.heap) + 1
      dim == getShape(dict["shape"])
      floats == dict["values"].floats
  IN [st EXCEPT
        !.heap = Append(@, [dims |-> dim,
                            data |-> [k \in 1..Product(dim) |->
                                        IF k <= Len(floats) THEN floats[k]
                                                            ELSE 0]]),
        !.tensors_ = [n \in Names |->
                        IF n \in Range(op.output) THEN T ELSE @[n]]]

\* type "GivenTensorFill": one new Tensor registered under every output, then
\* reset to the shape, filled with the values, and the count is asserted.
\* A value past the end of the buffer is no part of the tensor; the count
\* check then fails.
loadGivenTensorFill(st, op) ==
  LET dict == loadArgumentMap(op)
      T == Len(st.heap) + 1
      st1 == [st EXCEPT
                !.heap = Append(@, EmptyTensor),
                !.tensors_ = [n \in Names |->
                                IF n \in Range(op.output) THEN T ELSE @[n]]]
  IN IF ~ {"shape", "values"} \subseteq DOMAIN dict
       THEN Fail(st1, "MissingArgument")
       ELSE LET dim == getShape(dict["shape"])
                size == Product(dim)
                floats == dict["values"].floats
                st2 == [st1 EXCEPT !.heap[T] =
                          [dims |-> dim,
                           data |-> [k \in 1..size |->
                                       IF k <= Len(floats) THEN floats[k] ELSE 0]]]
            IN IF Len(floats) # size THEN Fail(st2, "ShapeMismatch") ELSE st2

\* type "ConstantFill": skipped when tensors_ already holds the first output,
\* else a new zero Tensor of the shape is registered under it.
loadConstantFill(st, op) ==
  LET dict == loadArgumentMap(op)
      name == op.output[1]
      T == Len(st.heap) + 1
  IN IF st.tensors_[name] # NoTensor THEN st
     ELSE LET st1 == [st EXCEPT !.heap = Append(@, EmptyTensor),
                                !.tensors_[name] = T]
          IN IF "shape" \notin DOMAIN dict
               THEN Fail(st1, "MissingArgument")
               ELSE LET dim == getShape(dict["shape"])
                    IN [st1 EXCEPT !.heap[T] =
                          [dims |-> dim, data |-> Zeros(Product(dim))]]

----------------------------------------------------------------------------
(* loadOperator: one branch per operator type *)

\* The types loadOperator has a branch for.
SupportedKinds ==
  {"Relu", "Conv", "MaxPool", "AveragePool", "Dropout", "SpatialBN", "Concat",
   "Sum", "Softmax", "FC", "LRN", "Mul", "Add", "ChannelShuffle", "Squeeze"}

loadRelu(st, op) ==
  LET in == getOrCreateNodeByName(st, op.input[1]) IN
  IF in.st.err # NoErr THEN in.st
  ELSE LET R == Len(in.st.nodes) + 1
           st1 == createNode(in.st, MkNode("Relu", opNameOf(op), <<in.r>>,
                                           in.st.nodes[in.r].dims, <<>>, "-"))
       IN saveOutputs(st1, op, R)

loadSum(st, op) ==
  LET in0 == getOrCreateNodeByName(st, op.input[1]) IN
  IF in0.st.err # NoErr THEN in0.st
  ELSE LET in1 == getOrCreateNodeByName(in0.st, op.input[2]) IN
       IF in1.st.err # NoErr THEN in1.st
       ELSE LET N == Len(in1.st.nodes) + 1
                st1 == createNode(in1.st,
                         MkNode("Add", opNameOf(op), <<in0.r, in1.r>>,
                                in1.st.nodes[in0.r].dims, <<>>, "-"))
            IN saveOutputs(st1, op, N)

\* type "FC": the weights are transposed into a local tensor; the bias
\* Variable is constructed from std::move(*b), which leaves the registered
\* Tensor *b in the default-constructed state.
loadFC(st, op) ==
  LET in == getOrCreateNodeByName(st, op.input[1]) IN
  IF in.st.err # NoErr THEN in.st
  ELSE LET w == getTensorByName(in.st, op.input[2]) IN
       IF w.st.err # NoErr THEN w.st
       ELSE LET b == getTensorByName(w.st, op.input[3]) IN
            IF b.st.err # NoErr THEN b.st
            ELSE LET s0 == b.st
                     wtag == transpose10(s0.heap[w.r])
                     W == Len(s0.nodes) + 1
                     s1 == createNode(s0, MkNode("Variable", "weights", <<>>,
                                                 wtag.dims, wtag.data, "Private"))
                     B == Len(s1.nodes) + 1
                     s2 == createNode(s1, MkNode("Variable", "biases", <<>>,
                                                 s1.heap[b.r].dims,
                                                 s1.heap[b.r].data, "Private"))
                     s3 == [s2 EXCEPT !.heap[b.r] = EmptyTensor]
                     FC == Len(s3.nodes) + 1
                     s4 == createNode(s3, MkNode("FullyConnected", opNameOf(op),
                                                 <<in.r, W, B>>,
                                                 FCOutDims(s3.nodes[in.r].dims,
                                                           wtag.dims),
                                                 <<>>, "-"))
                 IN saveOutputs(s4, op, FC)

----------------------------------------------------------------------------
(* loadOperator: the branches that read arguments *)

\* NCHW2NHWC and NHWC2NCHW.
NCHW2NHWC == <<0, 2, 3, 1>>
NHWC2NCHW == <<0, 3, 1, 2>>

\* loadInt(dict[name]): dict[name] of an absent name is a null pointer, which
\* loadInt dereferences; a present argument must carry an integer.
loadInt(dict, name) ==
  IF name \notin DOMAIN dict THEN [err |-> "MissingArgument", v |-> 0]
  ELSE IF ~ dict[name].has_i THEN [err |-> "TypeMismatch", v |-> 0]
  ELSE [err |-> NoErr, v |-> dict[name].i]

\* dict.count(name) ? loadInt(dict[name]) : default
loadIntOr(dict, name, default) ==
  IF name \in DOMAIN dict THEN loadInt(dict, name)
  ELSE [err |-> NoErr, v |-> default]

\* The first error among the argument reads, in the order they are made.
RECURSIVE FirstErr(_)
FirstErr(reads) ==
  IF reads = <<>> THEN NoErr
  ELSE IF Head(reads).err # NoErr THEN Head(reads).err
  ELSE FirstErr(Tail(reads))

\* Row-major strides of a shape.
RECURSIVE Stride(_, _)
Stride(dims, i) == IF i >= Len(dims) THEN 1 ELSE dims[i + 1] * Stride(dims, i + 1)

\* Tensor::transpose(&dest, shuffle): dest.dims[i] = dims[shuffle[i]] and the
\* element at dest index o comes from the source index with o[i] at position
\* shuffle[i]. Indices are 0-based as in the source.
transpose(T, shuffle) ==
  IF Len(T.dims) # Len(shuffle) THEN EmptyTensor
  ELSE LET n == Len(shuffle)
           odims == [i \in 1..n |-> T.dims[shuffle[i] + 1]]
           coord(k, i) == ((k - 1) \div Stride(odims, i)) % odims[i]
           src(k) == LET add[i \in 0..n] ==
                           IF i = 0 THEN 0
                           ELSE add[i - 1]
                                  + coord(k, i) * Stride(T.dims, shuffle[i] + 1)
                     IN add[n] + 1
       IN [dims |-> odims,
           data |-> [k \in 1..Product(odims) |-> T.data[src(k)]]]

\* Dimensions of createTranspose's result.
shuffleDims(dims, shuffle) == [i \in DOMAIN shuffle |-> Dim(dims, shuffle[i] + 1)]

\* calculateConvOutputDims, one spatial size: (in + 2 pad - kernel) / stride + 1.
convOutputDim(in, kernel, stride, pad) ==
  IF stride <= 0 THEN 0 ELSE ((in + 2 * pad - kernel) \div stride) + 1

\* G_.createTranspose(opName, in, shuffle); the result is the handle.
createTranspose(st, name, in, shuffle) ==
  createNode(st, WithAttr(MkNode("Transpose", name, <<in>>,
                                 shuffleDims(st.nodes[in].dims, shuffle),
                                 <<>>, "-"),
                          shuffle))

\* loadDropout binding only the first declared output.
loadDropout_firstOutputOnly(st, op) ==
  LET in == getOrCreateNodeByName(st, op.input[1]) IN
  IF in.st.err # NoErr THEN in.st
  ELSE [in.st EXCEPT !.nodeByName_[op.output[1]] = in.r]

\* type "Dropout": the outputs are bound to the resolved input.
loadDropout(st, op) ==
  LET in == getOrCreateNodeByName(st, op.input[1]) IN
  IF in.st.err # NoErr THEN in.st
  ELSE saveOutputs(in.st, op, in.r)

\* Per-edge padding arguments of a pooling record.
PadEdges == {"pad_l", "pad_r", "pad_t", "pad_b"}

\* Result dimensions (NHWC) of the host's pooling factories.
PoolOutDims(d, kernel, stride, pad) ==
  <<Dim(d, 1), convOutputDim(Dim(d, 2), kernel, stride, pad),
    convOutputDim(Dim(d, 3), kernel, stride, pad), Dim(d, 4)>>

\* type "MaxPool" / "AveragePool": the input is resolved, stride and kernel
\* are read unconditionally, pad is read when present and otherwise the
\* per-edge pads are asserted absent; global_pooling replaces the kernel by
\* dims()[3] of the (NCHW) input.
loadPool(st, op) ==
  LET dict == loadArgumentMap(op)
      in == getOrCreateNodeByName(st, op.input[1])
      stride == loadInt(dict, "stride")
      kernel == loadInt(dict, "kernel")
      pad == loadIntOr(dict, "pad", 0)
      e == FirstErr(<<stride, kernel, pad>>)
  IN IF in.st.err # NoErr THEN in.st
     ELSE IF e # NoErr THEN Fail(in.st, e)
     ELSE IF "pad" \notin DOMAIN dict /\ PadEdges \cap DOMAIN dict # {}
       THEN Fail(in.st, "UnsupportedOperator")
     ELSE LET s1 == createTranspose(in.st, opNameOf(op), in.r, NCHW2NHWC)
              tr == Len(s1.nodes)
              k == IF "global_pooling" \in DOMAIN dict
                     THEN Dim(s1.nodes[in.r].dims, 4) ELSE kernel.v
              s2 == createNode(s1, WithAttr(
                      MkNode(op.type, opNameOf(op), <<tr>>,
                             PoolOutDims(s1.nodes[tr].dims, k, stride.v, pad.v),
                             <<>>, "-"), <<k, stride.v, pad.v>>))
              s3 == createTranspose(s2, opNameOf(op), Len(s2.nodes), NHWC2NCHW)
          IN saveOutputs(s3, op, Len(s3.nodes))

\* convBias testing input_size() > 3: the third input is never loaded from a
\* record with three inputs.
convBias_offByOne(st, op, depth) ==
  IF Len(op.input) > 3 /\ st.tensors_[op.input[3]] # NoTensor
    THEN st.heap[st.tensors_[op.input[3]]]
    ELSE [dims |-> <<depth>>, data |-> Zeros(depth)]

\* The bias of a Conv record: the zero vector of the filter depth, replaced
\* by the registered tensor when a third input is declared and tensors_ holds
\* its name.
convBias(st, op, depth) ==
  IF Len(op.input) > 2 /\ st.tensors_[op.input[3]] # NoTensor
    THEN st.heap[st.tensors_[op.input[3]]]
    ELSE [dims |-> <<depth>>, data |-> Zeros(depth)]

\* type "Conv": stride, pad, kernel and group are read, the input resolved,
\* the weights transposed into the filter Variable, the bias Variable built,
\* and the convolution bracketed by the two layout transposes.
loadConv(st, op) ==
  LET dict == loadArgumentMap(op)
      stride == loadIntOr(dict, "stride", 1)
      pad == loadIntOr(dict, "pad", 0)
      kernel == loadInt(dict, "kernel")
      group == loadIntOr(dict, "group", 1)
      e == FirstErr(<<stride, pad, kernel, group>>)
  IN IF e # NoErr THEN Fail(st, e)
     ELSE LET in == getOrCreateNodeByName(st, op.input[1]) IN
     IF in.st.err # NoErr THEN in.st
     ELSE LET w == getTensorByName(in.st, op.input[2]) IN
     IF w.st.err # NoErr THEN w.st
     ELSE LET s0 == w.st
              wtag == transpose(s0.heap[w.r], <<0, 2, 3, 1>>)
              depth == Dim(wtag.dims, 1)
              s1 == createNode(s0, MkNode("Variable", "conv.filter", <<>>,
                                          wtag.dims, wtag.data, "Private"))
              filter == Len(s1.nodes)
              b == convBias(s1, op, depth)
              s2 == createNode(s1, MkNode("Variable", "conv.bias", <<>>,
                                          b.dims, b.data, "Private"))
              bias == Len(s2.nodes)
              s3 == createTranspose(s2, opNameOf(op), in.r, NCHW2NHWC)
              tr == Len(s3.nodes)
              idim == s3.nodes[tr].dims
              outDims == <<Dim(idim, 1),
                           convOutputDim(Dim(idim, 2), kernel.v, stride.v, pad.v),
                           convOutputDim(Dim(idim, 3), kernel.v, stride.v, pad.v),
                           depth>>
              s4 == createNode(s3, WithAttr(
                      MkNode("Conv", opNameOf(op), <<tr, filter, bias>>, outDims,
                             <<>>, "-"),
                      <<kernel.v, stride.v, pad.v, group.v>>))
              s5 == createTranspose(s4, opNameOf(op), Len(s4.nodes), NHWC2NCHW)
          IN saveOutputs(s5, op, Len(s5.nodes))

\* broadcastAxis aligning the leading dimensions for axis -1.
broadcastAxis_leading(axis, dims0, dims1) ==
  IF axis = -1 THEN 0 ELSE axis

\* The axis a broadcasting Mul/Add passes to createBroadcast: axis -1 stands
\* for in0->dims().size() - in1->dims().size().
broadcastAxis(axis, dims0, dims1) ==
  IF axis = -1 THEN Len(dims0) - Len(dims1) ELSE axis

\* type "Mul" / "Add": both inputs resolved, broadcast read; when it is 1 the
\* axis is read and the second input goes through createBroadcast.
loadMulAdd(st, op) ==
  LET dict == loadArgumentMap(op)
      in0 == getOrCreateNodeByName(st, op.input[1])
  IN IF in0.st.err # NoErr THEN in0.st
     ELSE LET in1 == getOrCreateNodeByName(in0.st, op.input[2]) IN
     IF in1.st.err # NoErr THEN in1.st
     ELSE LET broadcast == loadInt(dict, "broadcast")
              axis == loadInt(dict, "axis")
              s0 == in1.st
              d0 == s0.nodes[in0.r].dims
              d1 == s0.nodes[in1.r].dims
          IN IF broadcast.err # NoErr THEN Fail(s0, broadcast.err)
             ELSE IF broadcast.v = 1 /\ axis.err # NoErr THEN Fail(s0, axis.err)
             ELSE LET s1 == IF broadcast.v = 1
                              THEN createNode(s0, WithAttr(
                                     MkNode("Broadcast", opNameOf(op), <<in1.r>>,
                                            d0, <<>>, "-"),
                                     <<broadcastAxis(axis.v, d0, d1)>>))
                              ELSE s0
                      finalIn1 == IF broadcast.v = 1 THEN Len(s1.nodes) ELSE in1.r
                      s2 == createNode(s1, MkNode(op.type, opNameOf(op),
                                                  <<in0.r, finalIn1>>, d0, <<>>,
                                                  "-"))
                  IN saveOutputs(s2, op, Len(s2.nodes))

\* loadFloat(dict[name]): as loadInt, for an argument carrying a float.
loadFloat(dict, name) ==
  IF name \notin DOMAIN dict THEN [err |-> "MissingArgument", v |-> 0]
  ELSE IF ~ dict[name].has_f THEN [err |-> "TypeMismatch", v |-> 0]
  ELSE [err |-> NoErr, v |-> dict[name].f]

\* getChannel: the channel index the "order" argument stands for; NCHW when
\* the argument is absent.
getChannel(dict) ==
  IF "order" \notin DOMAIN dict THEN [err |-> NoErr, v |-> 1]
  ELSE IF ~ dict["order"].has_s THEN [err |-> "TypeMismatch", v |-> 0]
  ELSE IF dict["order"].s = "NHWC" THEN [err |-> NoErr, v |-> 3]
  ELSE IF dict["order"].s = "NCHW" THEN [err |-> NoErr, v |-> 1]
  ELSE [err |-> "InvalidOrder", v |-> 0]

\* A private Variable of the host filled from registered tensor t.
tensorVariable(st, name, t) ==
  createNode(st, MkNode("Variable", name, <<>>, st.heap[t].dims,
                        st.heap[t].data, "Private"))

\* type "SpatialBN": the input is resolved, the four statistics are looked up
\* in the registry, epsilon and the channel are read, and the statistics are
\* copied into the Variables of the batch-normalization node.
loadSpatialBN(st, op) ==
  LET dict == loadArgumentMap(op)
      in == getOrCreateNodeByName(st, op.input[1])
  IN IF in.st.err # NoErr THEN in.st
     ELSE LET scale == getTensorByName(in.st, op.input[2])
              bias == getTensorByName(scale.st, op.input[3])
              mean == getTensorByName(bias.st, op.input[4])
              var == getTensorByName(mean.st, op.input[5])
              epsilon == IF "epsilon" \in DOMAIN dict
                           THEN loadFloat(dict, "epsilon")
                           ELSE [err |-> NoErr, v |-> 0]
              channel == getChannel(dict)
              e == FirstErr(<<epsilon, channel>>)
          IN IF scale.st.err # NoErr THEN scale.st
             ELSE IF bias.st.err # NoErr THEN bias.st
             ELSE IF mean.st.err # NoErr THEN mean.st
             ELSE IF var.st.err # NoErr THEN var.st
             ELSE IF e # NoErr THEN Fail(var.st, e)
             ELSE LET s1 == tensorVariable(var.st, "scale", scale.r)
                      s2 == tensorVariable(s1, "bias", bias.r)
                      s3 == tensorVariable(s2, "mean", mean.r)
                      s4 == tensorVariable(s3, "var", var.r)
                      n == Len(s4.nodes)
                      s5 == createNode(s4, WithAttr(
                              MkNode("BatchNormalization", opNameOf(op),
                                     <<in.r, n - 3, n - 2, n - 1, n>>,
                                     s4.nodes[in.r].dims, <<>>, "-"),
                              <<channel.v, epsilon.v>>))
                  IN saveOutputs(s5, op, Len(s5.nodes))

\* The loop of the Concat branch: every input resolved in order; rs collects
\* the handles.
RECURSIVE resolveInputs(_, _, _, _)
resolveInputs(st, ns, i, rs) ==
  IF i > Len(ns) \/ st.err # NoErr THEN [st |-> st, rs |-> rs]
  ELSE LET r == getOrCreateNodeByName(st, ns[i])
       IN resolveInputs(r.st, ns, i + 1, Append(rs, r.r))

\* type "Concat": the inputs are resolved, the channel read.
loadConcat(st, op) ==
  LET dict == loadArgumentMap(op)
      inputs == resolveInputs(st, op.input, 1, <<>>)
      channel == getChannel(dict)
  IN IF inputs.st.err # NoErr THEN inputs.st
     ELSE IF channel.err # NoErr THEN Fail(inputs.st, channel.err)
     ELSE LET s0 == inputs.st
              d == s0.nodes[inputs.rs[1]].dims
              s1 == createNode(s0, WithAttr(
                      MkNode("Concat", opNameOf(op), inputs.rs,
                             [i \in DOMAIN d |->
                                IF i = channel.v + 1 THEN d[i] * Len(inputs.rs)
                                                     ELSE d[i]],
                             <<>>, "-"),
                      <<channel.v>>))
          IN saveOutputs(s1, op, Len(s1.nodes))

\* flattenCdr: the first dimension and the product of the others.
flattenCdr(dims) ==
  IF dims = <<>> THEN <<0, 0>> ELSE <<Head(dims), Product(Tail(dims))>>

\* type "Softmax": the name "softmax_expected" is resolved, then the input,
\* which is reshaped to two dimensions.
loadSoftmax(st, op) ==
  LET softmaxExpected == getOrCreateNodeByName(st, "softmax_expected") IN
  IF softmaxExpected.st.err # NoErr THEN softmaxExpected.st
  ELSE LET in == getOrCreateNodeByName(softmaxExpected.st, op.input[1]) IN
       IF in.st.err # NoErr THEN in.st
       ELSE LET s0 == in.st
                flatten == flattenCdr(s0.nodes[in.r].dims)
                s1 == createNode(s0, MkNode("Reshape", "reshape", <<in.r>>,
                                            flatten, <<>>, "-"))
                s2 == createNode(s1, MkNode("SoftMax", opNameOf(op),
                                            <<Len(s1.nodes), softmaxExpected.r>>,
                                            flatten, <<>>, "-"))
            IN saveOutputs(s2, op, Len(s2.nodes))

\* type "LRN": the input is resolved, size, alpha, beta and bias are read,
\* and the normalization is bracketed by the two layout transposes.
loadLRN(st, op) ==
  LET dict == loadArgumentMap(op)
      in == getOrCreateNodeByName(st, op.input[1])
      size == loadInt(dict, "size")
      alpha == loadFloat(dict, "alpha")
      beta == loadFloat(dict, "beta")
      k == loadFloat(dict, "bias")
      e == FirstErr(<<size, alpha, beta, k>>)
  IN IF in.st.err # NoErr THEN in.st
     ELSE IF e # NoErr THEN Fail(in.st, e)
     ELSE LET s1 == createTranspose(in.st, opNameOf(op), in.r, NCHW2NHWC)
              tr == Len(s1.nodes)
              s2 == createNode(s1, WithAttr(
                      MkNode("LocalResponseNormalization", opNameOf(op), <<tr>>,
                             s1.nodes[tr].dims, <<>>, "-"),
                      <<size.v \div 2, alpha.v, beta.v, k.v>>))
              s3 == createTranspose(s2, opNameOf(op), Len(s2.nodes), NHWC2NCHW)
          IN saveOutputs(s3, op, Len(s3.nodes))

\* type "ChannelShuffle": the input is resolved, group and kernel are read.
loadChannelShuffle(st, op) ==
  LET dict == loadArgumentMap(op)
      in == getOrCreateNodeByName(st, op.input[1])
      group == loadInt(dict, "group")
      kernel == loadInt(dict, "kernel")
      e == FirstErr(<<group, kernel>>)
  IN IF in.st.err # NoErr THEN in.st
     ELSE IF e # NoErr THEN Fail(in.st, e)
     ELSE LET s1 == createNode(in.st, WithAttr(
                      MkNode("ChannelShuffle", opNameOf(op), <<in.r>>,
                             in.st.nodes[in.r].dims, <<>>, "-"),
                      <<group.v, kernel.v>>))
          IN saveOutputs(s1, op, Len(s1.nodes))

\* Dimensions of createSqueeze's result: the listed axes (0-based) removed.
squeezeDims(d, axes) ==
  LET keep == {i \in DOMAIN d : (i - 1) \notin Range(axes)}
      F[i \in 0..Len(d)] ==
        IF i = 0 THEN <<>>
        ELSE IF i \in keep THEN Append(F[i - 1], d[i]) ELSE F[i - 1]
  IN F[Len(d)]

\* type "Squeeze": the input is resolved, the "dims" argument read with
\* getShape(dict["dims"]).
loadSqueeze(st, op) ==
  LET dict == loadArgumentMap(op)
      in == getOrCreateNodeByName(st, op.input[1])
  IN IF in.st.err # NoErr THEN in.st
     ELSE IF "dims" \notin DOMAIN dict THEN Fail(in.st, "MissingArgument")
     ELSE LET dims == getShape(dict["dims"])
              s1 == createNode(in.st, WithAttr(
                      MkNode("Squeeze", opNameOf(op), <<in.r>>,
                             squeezeDims(in.st.nodes[in.r].dims, dims),
                             <<>>, "-"),
                      dims))
          IN saveOutputs(s1, op, Len(s1.nodes))

----------------------------------------------------------------------------
(* loadNetwork: after the loop *)

\* The save node for node r.
saveNode(st, r) ==
  [st |-> createNode(st, MkNode("Save", "output", <<r>>, st.nodes[r].dims,
                                <<>>, "-")),
   root |-> Len(st.nodes) + 1]

\* bindOutput without the assert on external_output_size(): the lookup runs
\* on a list that may be empty.
bindOutput_unchecked(st, net) ==
  IF Len(net.external_output) = 0
       \/ st.nodeByName_[net.external_output[1]] = NoNode
    THEN [st |-> Fail(st, "UnknownNode"), root |-> NoNode]
    ELSE saveNode(st, st.nodeByName_[net.external_output[1]])

\* bindOutput binding the last declared external output instead of the first.
bindOutput_last(st, net) ==
  IF Len(net.external_output) = 0
    THEN [st |-> Fail(st, "MissingExternalOutput"), root |-> NoNode]
    ELSE LET r == getNodeByName(st, net.external_output[Len(net.external_output)])
         IN IF r.st.err # NoErr THEN [st |-> r.st, root |-> NoNode]
            ELSE saveNode(r.st, r.r)

\* bindOutput resolving the name with getOrCreateNodeByName: a registered
\* tensor is promoted to a node instead of failing the strict lookup.
bindOutput_lazy(st, net) ==
  IF Len(net.external_output) = 0
    THEN [st |-> Fail(st, "MissingExternalOutput"), root |-> NoNode]
    ELSE LET r == getOrCreateNodeByName(st, net.external_output[1])
         IN IF r.st.err # NoErr
              THEN [st |-> Fail(st, "UnknownNode"), root |-> NoNode]
              ELSE saveNode(r.st, r.r)

\* Asserts that an external output is declared, looks the first one up with
\* getNodeByName and creates the save node.
bindOutput(st, net) ==
  IF Len(net.external_output) = 0
    THEN [st |-> Fail(st, "MissingExternalOutput"), root |-> NoNode]
    ELSE LET r == getNodeByName(st, net.external_output[1]) IN
         IF r.st.err # NoErr
           THEN [st |-> r.st, root |-> NoNode]
           ELSE saveNode(r.st, r.r)

----------------------------------------------------------------------------
(* The constructor's loop over the caller's names and tensors *)

\* The constructor's loop without `nodeByName_[names[i]] = V`: the Variables
\* are created but the names are not bound to them.
registerInputs_unbound(st, ns, ts, i) ==
  [st EXCEPT !.nodes = @ \o [k \in 1..Len(ns) |->
                               MkNode("Variable", ns[k], <<>>, ts[k].dims,
                                      ts[k].data, "Public")]]

RECURSIVE registerInputs(_, _, _, _)
registerInputs(st, ns, ts, i) ==
  IF i > Len(ns) THEN st
  ELSE registerInputs(
         [st EXCEPT
            !.nodes = Append(@, MkNode("Variable", ns[i], <<>>, ts[i].dims,
                                       ts[i].data, "Public")),
            !.nodeByName_[ns[i]] = Len(st.nodes) + 1],
         ns, ts, i + 1)

----------------------------------------------------------------------------
(* Inputs *)

\* The tensor the caller binds to the network input "data".
InputTensor == [dims |-> <<1, 2>>, data |-> <<9, 8>>]

\* Records of the weights NetDef.
WeightPool ==
  { Op("GivenTensorFill", <<>>, <<"w">>,
       <<Arg("shape", <<2, 2>>, <<>>), Arg("values", <<>>, <<1, 2, 3, 4>>)>>),
    Op("GivenTensorFill", <<>>, <<"w">>,
       <<Arg("shape", <<2, 2>>, <<>>), Arg("values", <<>>, <<1, 2, 3>>)>>),
    Op("GivenTensorFill", <<>>, <<"b">>,
       <<Arg("shape", <<2>>, <<>>), Arg("values", <<>>, <<5, 6, 7>>)>>),
    Op("GivenTensorFill", <<>>, <<"data", "b">>,
       <<Arg("shape", <<2>>, <<>>), Arg("values", <<>>, <<5, 6>>)>>),
    Op("ConstantFill", <<>>, <<"data">>, <<Arg("shape", <<1>>, <<>>)>>),
    Op("Relu", <<"data">>, <<"y">>, <<>>) }

\* Records of the network NetDef.
OpPool ==
  { Op("Relu", <<"data">>, <<"y">>, <<>>),
    Op("Relu", <<"y">>, <<"data">>, <<>>),
    Op("FC", <<"data", "w", "b">>, <<"y">>, <<>>),
    Op("Sum", <<"b", "b">>, <<"y">>, <<>>),
    Op("FooBar", <<"data">>, <<"y">>, <<>>) }

\* The external outputs a network NetDef declares.
ExternalOutputs == {<<>>, <<"y">>, <<"b", "y">>}

Init ==
  /\ names \in {<<>>, <<"data">>}
  /\ tensors = [i \in DOMAIN names |-> InputTensor]
  /\ weightsDef \in [op : SeqUpTo(WeightPool, MaxWeights)]
  /\ networkDef \in [op : SeqUpTo(OpPool, MaxOps),
                     external_output : ExternalOutputs]
  /\ nodes = <<>>
  /\ nodeByName_ = [n \in Names |-> NoNode]
  /\ tensors_ = [n \in Names |-> NoTensor]
  /\ heap = <<>>
  /\ root_ = NoNode
  /\ outs = <<>>
  /\ err = NoErr
  /\ pc = "ctor"
  /\ wi = 1
  /\ oi = 1
  /\ deleted = <<>>

----------------------------------------------------------------------------
(* Steps of the constructor *)

inputs == <<names, tensors, weightsDef, networkDef>>

\* Every step of the constructor leaves the destructor's record alone.
frame == <<inputs, deleted>>

\* The loop's next position: a failed check aborts the pass where it is.
Continue(st, here) == pc' = IF st.err # NoErr THEN "failed" ELSE here

\* Constructor: the size check and the registration of the caller's tensors.
RegisterInputs ==
  /\ pc = "ctor"
  /\ LET st == IF Len(names) # Len(tensors)
                 THEN Fail(Cur, "InvalidInitialization")
                 ELSE registerInputs(Cur, names, tensors, 1)
     IN Commit(st) /\ Continue(st, "loadWeights")
  /\ UNCHANGED <<frame, root_, wi, oi>>

\* One iteration of loadWeights on record op, handled by `load`.
WeightStep(st) ==
  /\ Commit(st)
  /\ Continue(st, "loadWeights")
  /\ wi' = IF st.err # NoErr THEN wi ELSE wi + 1
  /\ UNCHANGED <<frame, root_, oi>>

AtWeight(type) ==
  /\ pc = "loadWeights"
  /\ wi <= Len(weightsDef.op)
  /\ weightsDef.op[wi].type = type

LoadWeightsGivenTensorFill ==
  /\ AtWeight("GivenTensorFill")
  /\ WeightStep(loadGivenTensorFill(Cur, weightsDef.op[wi]))

LoadWeightsConstantFill ==
  /\ AtWeight("ConstantFill")
  /\ WeightStep(loadConstantFill(Cur, weightsDef.op[wi]))

\* LoadWeightsOther reporting only the types loadOperator has no branch for,
\* and passing over the others in silence.
LoadWeightsOther_computeIgnored ==
  /\ pc = "loadWeights"
  /\ wi <= Len(weightsDef.op)
  /\ weightsDef.op[wi].type \notin {"GivenTensorFill", "ConstantFill"}
  /\ WeightStep(IF weightsDef.op[wi].type \in SupportedKinds THEN Cur
                ELSE unexpectedNodeError(Cur, weightsDef.op[wi],
                                         "Unsupported weight kind"))

\* Any other type: "Unsupported weight kind" is printed and the loop goes on.
LoadWeightsOther ==
  /\ pc = "loadWeights"
  /\ wi <= Len(weightsDef.op)
  /\ weightsDef.op[wi].type \notin {"GivenTensorFill", "ConstantFill"}
  /\ WeightStep(unexpectedNodeError(Cur, weightsDef.op[wi],
                                    "Unsupported weight kind"))

\* loadWeights returns and the constructor calls loadNetwork.
LoadWeightsReturn ==
  /\ pc = "loadWeights"
  /\ wi > Len(weightsDef.op)
  /\ pc' = "loadNetwork"
  /\ UNCHANGED <<frame, nodes, nodeByName_, tensors_, heap, root_, outs, err,
                 wi, oi>>

\* One iteration of loadNetwork's loop: loadOperator on record oi.
OperatorStep(st) ==
  /\ Commit(st)
  /\ Continue(st, "loadNetwork")
  /\ oi' = IF st.err # NoErr THEN oi ELSE oi + 1
  /\ UNCHANGED <<frame, root_, wi>>

AtOperator(type) ==
  /\ pc = "loadNetwork"
  /\ oi <= Len(networkDef.op)
  /\ networkDef.op[oi].type = type

LoadOperatorRelu ==
  /\ AtOperator("Relu")
  /\ OperatorStep(loadRelu(Cur, networkDef.op[oi]))

LoadOperatorSum ==
  /\ AtOperator("Sum")
  /\ OperatorStep(loadSum(Cur, networkDef.op[oi]))

LoadOperatorFC ==
  /\ AtOperator("FC")
  /\ OperatorStep(loadFC(Cur, networkDef.op[oi]))

\* No branch matches: "Unsupported operator." is printed and loadOperator
\* returns to the loop.
LoadOperatorUnsupported ==
  /\ pc = "loadNetwork"
  /\ oi <= Len(networkDef.op)
  /\ networkDef.op[oi].type \notin SupportedKinds
  /\ OperatorStep(unexpectedNodeError(Cur, networkDef.op[oi],
                                      "Unsupported operator."))

\* loadNetwork after its loop: the external output is bound to the save node.
LoadNetworkSave ==
  /\ pc = "loadNetwork"
  /\ oi > Len(networkDef.op)
  /\ LET b == bindOutput(Cur, networkDef)
     IN /\ Commit(b.st)
        /\ Continue(b.st, "done")
        /\ root_' = b.root
  /\ UNCHANGED <<frame, wi, oi>>

Next ==
  \/ RegisterInputs
  \/ LoadWeightsGivenTensorFill
  \/ LoadWeightsConstantFill
  \/ LoadWeightsOther
  \/ LoadWeightsReturn
  \/ LoadOperatorRelu
  \/ LoadOperatorSum
  \/ LoadOperatorFC
  \/ LoadOperatorUnsupported
  \/ LoadNetworkSave

Spec == Init /\ [][Next]_vars

----------------------------------------------------------------------------
(* The destructor *)

\* ~caffe2ModelLoader: `delete it.second` for every entry of tensors_, so a
\* Tensor is deleted once per name that maps to it.
deletions(st) ==
  [h \in 1..Len(st.heap) |-> Cardinality({n \in Names : st.tensors_[n] = h})]

\* The loader is destroyed after its constructor has returned. Deleting a
\* Tensor twice is undefined: the process may go on or crash.
Destroy ==
  /\ pc = "done"
  /\ deleted' = deletions(Cur)
  /\ pc' \in {"destroyed"} \cup
             (IF \E h \in DOMAIN deletions(Cur) : deletions(Cur)[h] > 1
                THEN {"crashed"} ELSE {})
  /\ UNCHANGED <<inputs, nodes, nodeByName_, tensors_, heap, root_, outs, err,
                 wi, oi>>

\* The loader's members before the constructor's body runs.
Fresh ==
  /\ nodes = <<>>
  /\ nodeByName_ = [n \in Names |-> NoNode]
  /\ tensors_ = [n \in Names |-> NoTensor]
  /\ heap = <<>>
  /\ root_ = NoNode
  /\ outs = <<>>
  /\ err = NoErr
  /\ pc = "ctor"
  /\ wi = 1
  /\ oi = 1
  /\ deleted = <<>>

\* Records of a weights NetDef: fills, compute kinds and an unknown kind.
WeightKindPool ==
  { Op("GivenTensorFill", <<>>, <<"w">>,
       <<Arg("shape", <<2, 2>>, <<>>), Arg("values", <<>>, <<1, 2, 3, 4>>)>>),
    Op("GivenTensorFill", <<>>, <<"data", "b">>,
       <<Arg("shape", <<2>>, <<>>), Arg("values", <<>>, <<5, 6>>)>>),
    Op("ConstantFill", <<>>, <<"b">>, <<Arg("shape", <<1>>, <<>>)>>),
    Op("Relu", <<"data">>, <<"y">>, <<>>),
    Op("Conv", <<"data", "w">>, <<"y">>, <<IntArg("kernel", 1)>>),
    Op("FooBar", <<"data">>, <<"y">>, <<>>) }

\* A loader over a weights NetDef alone: the network has no operator and its
\* external output is the caller's input.
InitWeights ==
  /\ names = <<"data">>
  /\ tensors = <<InputTensor>>
  /\ weightsDef \in [op : SeqUpTo(WeightKindPool, MaxWeights)]
  /\ networkDef = [op |-> <<>>, external_output |-> <<"data">>]
  /\ Fresh

NextWeights ==
  \/ RegisterInputs
  \/ LoadWeightsGivenTensorFill
  \/ LoadWeightsConstantFill
  \/ LoadWeightsOther
  \/ LoadWeightsReturn
  \/ LoadNetworkSave
  \/ Destroy

\* The weight pass and the loader's destruction.
SpecWeights == InitWeights /\ [][NextWeights]_vars

----------------------------------------------------------------------------
(* The operator branches over a network with an image input *)

LoadOperatorDropout ==
  /\ AtOperator("Dropout")
  /\ OperatorStep(loadDropout(Cur, networkDef.op[oi]))

LoadOperatorPool ==
  /\ \/ AtOperator("MaxPool")
     \/ AtOperator("AveragePool")
  /\ OperatorStep(loadPool(Cur, networkDef.op[oi]))

LoadOperatorConv ==
  /\ AtOperator("Conv")
  /\ OperatorStep(loadConv(Cur, networkDef.op[oi]))

LoadOperatorMulAdd ==
  /\ \/ AtOperator("Mul")
     \/ AtOperator("Add")
  /\ OperatorStep(loadMulAdd(Cur, networkDef.op[oi]))

LoadOperatorSpatialBN ==
  /\ AtOperator("SpatialBN")
  /\ OperatorStep(loadSpatialBN(Cur, networkDef.op[oi]))

LoadOperatorConcat ==
  /\ AtOperator("Concat")
  /\ OperatorStep(loadConcat(Cur, networkDef.op[oi]))

LoadOperatorSoftmax ==
  /\ AtOperator("Softmax")
  /\ OperatorStep(loadSoftmax(Cur, networkDef.op[oi]))

LoadOperatorLRN ==
  /\ AtOperator("LRN")
  /\ OperatorStep(loadLRN(Cur, networkDef.op[oi]))

LoadOperatorChannelShuffle ==
  /\ AtOperator("ChannelShuffle")
  /\ OperatorStep(loadChannelShuffle(Cur, networkDef.op[oi]))

LoadOperatorSqueeze ==
  /\ AtOperator("Squeeze")
  /\ OperatorStep(loadSqueeze(Cur, networkDef.op[oi]))

\* The image (NCHW) the caller binds to "data".
InputImage == [dims |-> <<1, 1, 3, 2>>, data |-> <<1, 2, 3, 4, 5, 6>>]

Fill(name, shape, values) ==
  Op("GivenTensorFill", <<>>, <<name>>,
     <<Arg("shape", shape, <<>>), Arg("values", <<>>, values)>>)

\* The weights NetDef of the network: convolution weights (KCRS) and bias, a
\* matrix, and the weights and bias of a fully-connected layer.
ImageWeights ==
  << Fill("cw", <<2, 1, 1, 1>>, <<7, 8>>),
     Fill("cb", <<2>>, <<5, 6>>),
     Fill("s", <<3, 2>>, <<1, 2, 3, 4, 5, 6>>),
     Fill("w", <<2, 2>>, <<1, 2, 3, 4>>),
     Fill("b", <<2>>, <<5, 6>>),
     Fill("softmax_expected", <<1, 1>>, <<0>>) >>

Pool(type, args) == Op(type, <<"data">>, <<"y">>, args)

\* Records of the network NetDef.
ImageOpPool ==
  { Op("Relu", <<"data">>, <<"y", "z">>, <<>>),
    Op("Sum", <<"data", "data">>, <<"y">>, <<>>),
    Op("FC", <<"s", "w", "b">>, <<"y">>, <<>>),
    Op("Dropout", <<"data">>, <<"y">>, <<>>),
    Op("Dropout", <<"s">>, <<"y", "z">>, <<>>),
    Op("Dropout", <<"y">>, <<"z">>, <<>>),
    Pool("MaxPool", <<IntArg("stride", 1), IntArg("kernel", 1)>>),
    Pool("AveragePool", <<IntArg("stride", 1), IntArg("global_pooling", 1)>>),
    Pool("MaxPool", <<IntArg("stride", 1)>>),
    Pool("AveragePool", <<IntArg("stride", 1), IntArg("kernel", 1),
                          IntArg("global_pooling", 1)>>),
    Pool("MaxPool", <<IntArg("stride", 1), IntArg("kernel", 1),
                      IntArg("pad", 0), IntArg("pad_l", 1)>>),
    Pool("MaxPool", <<IntArg("stride", 1), IntArg("kernel", 1),
                      IntArg("pad_l", 1)>>),
    Op("Conv", <<"data", "cw">>, <<"y">>, <<IntArg("kernel", 1)>>),
    Op("Conv", <<"data", "cw", "cb">>, <<"y">>, <<IntArg("kernel", 1)>>),
    Op("Conv", <<"data", "cw", "z">>, <<"y">>, <<IntArg("kernel", 1)>>),
    Op("Mul", <<"data", "s">>, <<"y">>,
       <<IntArg("broadcast", 1), IntArg("axis", -1)>>),
    Op("Add", <<"data", "s">>, <<"y">>,
       <<IntArg("broadcast", 1), IntArg("axis", 1)>>),
    Op("Mul", <<"data", "data">>, <<"y">>, <<IntArg("broadcast", 0)>>),
    Op("Add", <<"data", "data">>, <<"y">>,
       <<IntArg("broadcast", 1), IntArg("axis", -1)>>),
    Op("Add", <<"s", "s">>, <<"z">>,
       <<IntArg("broadcast", 1), IntArg("axis", -1)>>),
    Op("SpatialBN", <<"data", "cb", "cb", "cb", "cb">>, <<"y">>,
       <<FloatArg("epsilon", 1)>>),
    Op("Concat", <<"data", "s">>, <<"y", "z">>, <<StrArg("order", "NHWC")>>),
    Op("Softmax", <<"data">>, <<"y">>, <<>>),
    Op("LRN", <<"data">>, <<"y">>,
       <<IntArg("size", 2), FloatArg("alpha", 1), FloatArg("beta", 1),
         FloatArg("bias", 1)>>),
    Op("ChannelShuffle", <<"data">>, <<"y">>,
       <<IntArg("group", 1), IntArg("kernel", 1)>>),
    Op("Squeeze", <<"data">>, <<"y">>, <<Arg("dims", <<0>>, <<>>)>>) }

InitImage ==
  /\ names = <<"data">>
  /\ tensors = <<InputImage>>
  /\ weightsDef = [op |-> ImageWeights]
  /\ networkDef \in [op : SeqUpTo(ImageOpPool, MaxOps),
                     external_output : {<<"y">>}]
  /\ Fresh

NextImage ==
  \/ RegisterInputs
  \/ LoadWeightsGivenTensorFill
  \/ LoadWeightsReturn
  \/ LoadOperatorRelu
  \/ LoadOperatorSum
  \/ LoadOperatorFC
  \/ LoadOperatorDropout
  \/ LoadOperatorPool
  \/ LoadOperatorConv
  \/ LoadOperatorMulAdd
  \/ LoadOperatorSpatialBN
  \/ LoadOperatorConcat
  \/ LoadOperatorSoftmax
  \/ LoadOperatorLRN
  \/ LoadOperatorChannelShuffle
  \/ LoadOperatorSqueeze
  \/ LoadNetworkSave

\* The pass over the operator records of an image network.
SpecImage == InitImage /\ [][NextImage]_vars

----------------------------------------------------------------------------
(* Properties *)

Ops == networkDef.op
Weights == weightsDef.op
ExtOut == networkDef.external_output

VariablesNamed(n) ==
  {k \in DOMAIN nodes : nodes[k].kind = "Variable" /\ nodes[k].name = n}

NodesOfKind(kind) == {k \in DOMAIN nodes : nodes[k].kind = kind}

Reported(message) == \E k \in DOMAIN outs : outs[k].message = message

\* The weight pass has returned and no check has failed.
WeightsLoaded == pc \in {"loadNetwork", "done"}

\* C1: once a record of a type outside the supported set has reached
\* loadOperator, the pass is in the UnsupportedOperator failure state: no
\* later record is lowered and no save node is created.
C1_UnsupportedOperatorAborts ==
  Reported("Unsupported operator.") =>
    /\ pc = "failed"
    /\ err = "UnsupportedOperator"
    /\ root_ = NoNode

\* C2: after the weight pass, the registry entry of a name the caller
\* pre-seeded, named as sole output by a ConstantFill record, has the
\* caller's shape and not the record's.
C2_ConstantFillKeepsCallerShape ==
  WeightsLoaded =>
    \A i \in DOMAIN names :
      (\E k \in DOMAIN Weights : /\ Weights[k].type = "ConstantFill"
                                 /\ Weights[k].output = <<names[i]>>)
        => \/ tensors_[names[i]] = NoTensor
           \/ heap[tensors_[names[i]]].dims = tensors[i].dims

\* The names the lowered records resolved through getOrCreateNodeByName.
Resolved(op) ==
  CASE op.type \in {"Relu", "FC"} -> {op.input[1]}
    [] op.type = "Sum" -> {op.input[1], op.input[2]}
    [] OTHER -> {}

\* The names a lowered record bound to its result.
Written(op) == IF op.type \in SupportedKinds THEN Range(op.output) ELSE {}

\* C3: in a pass that has not been aborted, resolving a registered name twice
\* in a row returns the same handle and
\* the second resolve changes nothing; no name ever has two input Variables,
\* and a registered name that lowered operators consumed (before any operator
\* redefined it) has exactly one, however many consumed it.
C3_ResolveIdempotent ==
  /\ \A n \in Names :
       (tensors_[n] # NoTensor /\ err = NoErr) =>
         LET r1 == getOrCreateNodeByName(Cur, n)
             r2 == getOrCreateNodeByName(r1.st, n)
         IN /\ r1.r # NoNode
            /\ r2.r = r1.r
            /\ r2.st = r1.st
  /\ \A n \in Names : Cardinality(VariablesNamed(n)) <= 1
  /\ \A n \in Names :
       (/\ tensors_[n] # NoTensor
        /\ \E k \in 1..(oi - 1) :
             /\ n \in Resolved(Ops[k])
             /\ \A j \in 1..(k - 1) : n \notin Written(Ops[j]))
         => Cardinality(VariablesNamed(n)) = 1

\* C3 witness: two lowered Sum records consumed "b", and both Add nodes read
\* the one Variable promoted from the registry.
C3_Witness ==
  \E i, j \in NodesOfKind("Add") :
    /\ i < j
    /\ nodes[i].ins = nodes[j].ins
    /\ nodes[nodes[i].ins[1]].kind = "Variable"
    /\ nodes[nodes[i].ins[1]].name = "b"
    /\ nodes[nodes[i].ins[1]].vis = "Private"

\* A GivenTensorFill record whose value count differs from its shape's size.
Mismatched(op) ==
  /\ op.type = "GivenTensorFill"
  /\ Len(loadArgumentMap(op)["values"].floats)
       # Product(loadArgumentMap(op)["shape"].ints)

\* C4: a GivenTensorFill record with too few or too many values is never
\* passed: the weight pass stops at it (or before it) with the shape-mismatch
\* error and the pass never completes.
C4_FillCountMismatchFails ==
  \A k \in DOMAIN Weights :
    Mismatched(Weights[k]) =>
      /\ wi <= k
      /\ pc \in {"ctor", "loadWeights", "failed"}
      /\ pc = "failed" => err = "ShapeMismatch"

\* C4 witness: the pass has failed at a record with fewer values than its
\* shape holds, after an earlier record was loaded.
C4_Witness ==
  /\ pc = "failed"
  /\ err = "ShapeMismatch"
  /\ wi = 2
  /\ Len(loadArgumentMap(Weights[wi])["values"].floats)
       < Product(loadArgumentMap(Weights[wi])["shape"].ints)

\* C5 (as claimed): every pass over a network that declares no external
\* output ends in MissingExternalOutput.
C5_AlwaysMissingExternalOutput ==
  (ExtOut = <<>> /\ pc \in {"done", "failed"}) =>
    /\ err = "MissingExternalOutput"
    /\ root_ = NoNode

\* C5 (amended): a network that declares no external output never gets a save
\* node and never completes, and once the weight pass and every operator have
\* gone through without failure the pass fails with MissingExternalOutput,
\* without the lookup (no UnknownNode).
C5_MissingExternalOutput ==
  ExtOut = <<>> =>
    /\ root_ = NoNode
    /\ NodesOfKind("Save") = {}
    /\ pc # "done"
    /\ err # "UnknownNode"
    /\ (pc = "failed" /\ wi > Len(Weights) /\ oi > Len(Ops))
         => err = "MissingExternalOutput"

\* C5 witness: operators were lowered, then the pass failed for want of an
\* external output.
C5_Witness ==
  /\ ExtOut = <<>>
  /\ pc = "failed"
  /\ err = "MissingExternalOutput"
  /\ Len(Ops) = MaxOps
  /\ oi > Len(Ops)
  /\ NodesOfKind("Relu") # {}

\* The kind of node a lowered record leaves in the graph.
LoweredKind(op) ==
  CASE op.type = "Relu" -> <<"Relu">>
    [] op.type = "Sum" -> <<"Add">>
    [] op.type = "FC" -> <<"FullyConnected">>
    [] OTHER -> <<>>

RECURSIVE LoweredKinds(_)
LoweredKinds(ops) ==
  IF ops = <<>> THEN <<>> ELSE LoweredKind(Head(ops)) \o LoweredKinds(Tail(ops))

IsCompute(node) == node.kind \notin {"Variable", "Save"}

ComputeKinds ==
  LET c == SelectSeq(nodes, IsCompute) IN [k \in DOMAIN c |-> c[k].kind]

\* C6: the phases are ordered. Whenever an operator has been lowered or
\* loadNetwork has begun, every weight record has been processed; the compute
\* nodes of the graph are those of the records before oi, in file order; the
\* save node exists only when every record has been lowered, is the last node
\* created, is unique, and reads the node bound to the first external output.
C6_PhasesOrdered ==
  /\ (oi > 1 \/ pc \in {"loadNetwork", "done"} \/ ComputeKinds # <<>>)
       => wi = Len(Weights) + 1
  /\ ComputeKinds = LoweredKinds(SubSeq(Ops, 1, oi - 1))
  /\ Cardinality(NodesOfKind("Save")) = IF pc = "done" THEN 1 ELSE 0
  /\ pc = "done" <=> root_ # NoNode
  /\ root_ # NoNode =>
       /\ oi = Len(Ops) + 1
       /\ root_ = Len(nodes)
       /\ nodes[root_].kind = "Save"
       /\ nodes[root_].ins = <<nodeByName_[ExtOut[1]]>>

\* C6 witness: a completed pass over two weight records and two operators,
\* with two external outputs bound to different nodes.
C6_Witness ==
  /\ pc = "done"
  /\ Len(Weights) = MaxWeights
  /\ Len(Ops) = MaxOps
  /\ Len(ExtOut) = 2
  /\ nodeByName_[ExtOut[1]] # nodeByName_[ExtOut[2]]
  /\ Len(ComputeKinds) = MaxOps

\* C7: when every operator has been lowered and the first external output is
\* not a key of nodeByName_, the next step fails with UnknownNode, creates no
\* node (no promotion of a registered tensor, no save node) and binds nothing.
C7_StrictOutputLookup ==
  [][(/\ pc = "loadNetwork"
      /\ oi > Len(Ops)
      /\ ExtOut # <<>>
      /\ nodeByName_[ExtOut[1]] = NoNode)
       => (/\ pc' = "failed"
           /\ err' = "UnknownNode"
           /\ nodes' = nodes
           /\ nodeByName_' = nodeByName_
           /\ root_' = NoNode)]_vars

\* C7 witness: the pass failed with UnknownNode on a name that is registered
\* as a tensor but was never resolved by an operator.
C7_Witness ==
  /\ pc = "failed"
  /\ err = "UnknownNode"
  /\ ExtOut # <<>>
  /\ tensors_[ExtOut[1]] # NoTensor
  /\ VariablesNamed(ExtOut[1]) = {}
  /\ Len(nodes) > 0

\* C8: after the weight pass, whatever fill records named a pre-seeded name,
\* resolving it returns the Variable made from the caller's tensor (and
\* creates nothing) as long as no lowered operator declared it as an output.
C8_CallerTensorTakesPrecedence ==
  WeightsLoaded =>
    \A i \in DOMAIN names :
      (\A k \in 1..(oi - 1) : names[i] \notin Range(Ops[k].output)) =>
        LET r == getOrCreateNodeByName(Cur, names[i])
        IN /\ r.st = Cur
           /\ r.r # NoNode
           /\ nodes[r.r] = MkNode("Variable", names[i], <<>>, tensors[i].dims,
                                  tensors[i].data, "Public")

\* C8 witness: a fill record registered a tensor under the pre-seeded name
\* "data", and a lowered Relu reads the caller's Variable.
C8_Witness ==
  /\ WeightsLoaded
  /\ names = <<"data">>
  /\ tensors_["data"] # NoTensor
  /\ heap[tensors_["data"]].dims # tensors[1].dims
  /\ \E k \in NodesOfKind("Relu") :
       /\ nodes[k].ins = <<nodeByName_["data"]>>
       /\ nodes[nodes[k].ins[1]].vis = "Public"

\* C10: lowering an operator leaves the Tensor Registry as the weight pass
\* left it: no step of loadNetwork changes a registered tensor.
C10_LoweringKeepsRegistry ==
  [][pc = "loadNetwork" => (heap' = heap /\ tensors_' = tensors_)]_vars

\* C11: when the loader is destroyed, every Tensor the weight pass created
\* has been deleted exactly once.
C11_EveryTensorReleasedOnce ==
  pc \in {"destroyed", "crashed"} =>
    \A h \in DOMAIN heap : deleted[h] = 1

\* A record of the weights NetDef that is no fill.
NotFill(op) == op.type \notin {"GivenTensorFill", "ConstantFill"}

\* The diagnostics the weight pass has printed, in order.
WeightDiagnostics ==
  SelectSeq(outs, LAMBDA d : d.message = "Unsupported weight kind")

\* C18 (as claimed): a processed weight record of a known compute kind has no
\* diagnostic printed for it.
C18_ComputeKindNotReported ==
  \A k \in 1..(wi - 1) :
    Weights[k].type \in SupportedKinds =>
      ~ \E d \in DOMAIN outs : outs[d].node = Weights[k]

\* C18 (amended): a step of the weight pass on a record that is no fill,
\* whether of a known compute kind or not, leaves the Tensor Registry
\* unchanged, does not abort the pass, and prints the diagnostic
\* "Unsupported weight kind" with the record.
C18_NonFillReportedAndSkipped ==
  [][(/\ pc = "loadWeights"
      /\ wi <= Len(Weights)
      /\ NotFill(Weights[wi]))
       => (/\ tensors_' = tensors_
           /\ heap' = heap
           /\ nodes' = nodes
           /\ pc' = "loadWeights"
           /\ wi' = wi + 1
           /\ outs' = Append(outs, [message |-> "Unsupported weight kind",
                                    node |-> Weights[wi]]))]_vars

\* C18 witness: the weight pass went through a known compute kind and an
\* unknown kind, reported both and registered nothing.
C18_Witness ==
  /\ pc = "loadNetwork"
  /\ \E j, k \in DOMAIN Weights :
       /\ Weights[j].type = "Relu"
       /\ Weights[k].type = "FooBar"
  /\ Len(WeightDiagnostics) = 2
  /\ heap = <<>>

\* The operator record the next step of loadNetwork lowers is of one of the
\* given types.
Lowering(types) ==
  /\ pc = "loadNetwork"
  /\ oi <= Len(Ops)
  /\ Ops[oi].type \in types

\* The Variable getOrCreateNodeByName creates for a registered tensor.
PromotedVariable(n) ==
  MkNode("Variable", n, <<>>, heap[tensors_[n]].dims, heap[tensors_[n]].data,
         "Private")

\* C12 (as claimed): a step that lowers a Dropout record without failing
\* leaves the graph's nodes as they were and maps every declared output to
\* the node the first input denotes.
C12_DropoutCreatesNoNode ==
  [][(Lowering({"Dropout"}) /\ err' = NoErr)
       => (/\ nodes' = nodes
           /\ \A o \in Range(Ops[oi].output) :
                /\ nodeByName_'[o] # NoNode
                /\ nodeByName_'[o] = nodeByName_'[Ops[oi].input[1]])]_vars

\* C12 (amended): a step lowering a Dropout record creates no compute node.
\* When the first input has a node, the graph is unchanged and every declared
\* output is mapped to that node; when it has none but names a registered
\* tensor, exactly one node is added, the private Variable holding that
\* tensor, the input name is mapped to it and so is every declared output;
\* when it names neither, the step fails and maps nothing.
C12_DropoutAliasesInput ==
  [][Lowering({"Dropout"})
       => LET op == Ops[oi]
              in == op.input[1]
          IN IF nodeByName_[in] # NoNode
               THEN /\ err' = NoErr
                    /\ nodes' = nodes
                    /\ \A n \in Names :
                         nodeByName_'[n] = IF n \in Range(op.output)
                                             THEN nodeByName_[in]
                                             ELSE nodeByName_[n]
             ELSE IF tensors_[in] # NoTensor
               THEN /\ err' = NoErr
                    /\ nodes' = Append(nodes, PromotedVariable(in))
                    /\ \A n \in Names :
                         nodeByName_'[n] = IF n \in Range(op.output) \cup {in}
                                             THEN Len(nodes) + 1
                                             ELSE nodeByName_[n]
             ELSE /\ err' # NoErr
                  /\ nodes' = nodes
                  /\ nodeByName_' = nodeByName_]_vars

\* C12 witness: a Dropout record whose input was a registered tensor has
\* been lowered: both of its outputs denote the Variable promoted for "s",
\* and the graph holds no node besides the caller's input and that Variable.
C12_Witness ==
  /\ oi = 2
  /\ Ops[1].type = "Dropout"
  /\ Ops[1].input = <<"s">>
  /\ err = NoErr
  /\ Len(nodes) = 2
  /\ nodes[2].kind = "Variable"
  /\ nodeByName_["y"] = 2
  /\ nodeByName_["z"] = 2
  /\ nodeByName_["s"] = 2

PoolKinds == {"MaxPool", "AveragePool"}

\* The first input of the record about to be lowered resolves: it has a node
\* or names a registered tensor.
FirstInputResolves ==
  LET in == Ops[oi].input[1]
  IN nodeByName_[in] # NoNode \/ tensors_[in] # NoTensor

\* The pooling nodes a step has added to the graph.
NewPoolNodes ==
  {k \in DOMAIN nodes' : k > Len(nodes) /\ nodes'[k].kind \in PoolKinds}

\* C13: a step lowering a pooling record whose input resolves and that
\* carries stride and no padding argument: with global_pooling set and no
\* kernel it does not fail and creates one pool node whose kernel is the width
\* (last NCHW dimension) of the input; with neither kernel nor global_pooling
\* it fails with MissingArgument.
C13_KernelRequiredUnlessGlobalPooling ==
  [][(/\ Lowering(PoolKinds)
      /\ FirstInputResolves
      /\ "kernel" \notin DOMAIN loadArgumentMap(Ops[oi])
      /\ DOMAIN loadArgumentMap(Ops[oi]) \subseteq {"stride", "global_pooling"}
      /\ "stride" \in DOMAIN loadArgumentMap(Ops[oi]))
       => IF "global_pooling" \in DOMAIN loadArgumentMap(Ops[oi])
            THEN /\ err' = NoErr
                 /\ \E k \in NewPoolNodes :
                      /\ NewPoolNodes = {k}
                      /\ nodes'[k].attr[1] =
                           Dim(nodes'[nodeByName_'[Ops[oi].input[1]]].dims, 4)
            ELSE err' = "MissingArgument"]_vars

\* C14: a step lowering a pooling record that carries pad_l, pad_r, pad_t or
\* pad_b fails and creates no pool node, with or without a pad argument.
C14_PerEdgePadRejected ==
  [][(/\ Lowering(PoolKinds)
      /\ PadEdges \cap DOMAIN loadArgumentMap(Ops[oi]) # {})
       => (/\ err' # NoErr
           /\ NewPoolNodes = {})]_vars

\* The convolution nodes a step has added to the graph.
NewConvNodes ==
  {k \in DOMAIN nodes' : k > Len(nodes) /\ nodes'[k].kind = "Conv"}

\* The bias operand of convolution node k after the step.
BiasOf(k) == nodes'[nodes'[k].ins[3]]

\* The zero bias of a Conv record: one zero per output channel of the weight
\* tensor named by the second input.
ZeroBias(op) ==
  LET depth == heap[tensors_[op.input[2]]].dims[1]
  IN [dims |-> <<depth>>, data |-> Zeros(depth)]

\* C15 (as claimed): a step that lowers a Conv record gives the convolution
\* node the zero vector of the weight's output-channel count as bias when the
\* record has at most two inputs, and the contents of the tensor named by the
\* third input whenever a third input is declared.
C15_DeclaredBiasAlwaysUsed ==
  [][(Lowering({"Conv"}) /\ err' = NoErr)
       => \E k \in NewConvNodes :
            LET op == Ops[oi] IN
            IF Len(op.input) <= 2
              THEN /\ BiasOf(k).dims = ZeroBias(op).dims
                   /\ BiasOf(k).data = ZeroBias(op).data
              ELSE /\ tensors_[op.input[3]] # NoTensor
                   /\ BiasOf(k).dims = heap[tensors_[op.input[3]]].dims
                   /\ BiasOf(k).data = heap[tensors_[op.input[3]]].data]_vars

\* C15 (amended): a step that lowers a Conv record creates one convolution
\* node whose bias is a private Variable "conv.bias". It holds the contents of
\* the tensor named by the third input when a third input is declared and the
\* Tensor Registry holds that name; it is the zero vector of the weight's
\* output-channel count when the record has at most two inputs and also when
\* the declared third input names no registered tensor.
C15_RegisteredBiasOverridesZero ==
  [][(Lowering({"Conv"}) /\ err' = NoErr)
       => \E k \in NewConvNodes :
            LET op == Ops[oi] IN
            /\ NewConvNodes = {k}
            /\ BiasOf(k).kind = "Variable"
            /\ BiasOf(k).name = "conv.bias"
            /\ IF Len(op.input) > 2 /\ tensors_[op.input[3]] # NoTensor
                 THEN /\ BiasOf(k).dims = heap[tensors_[op.input[3]]].dims
                      /\ BiasOf(k).data = heap[tensors_[op.input[3]]].data
                 ELSE /\ BiasOf(k).dims = ZeroBias(op).dims
                      /\ BiasOf(k).data = ZeroBias(op).data]_vars

\* C15 witness: a Conv record with the registered bias "cb" and a Conv record
\* whose third input "z" names no tensor have both been lowered; the first
\* convolution has the bias 5, 6 and the second the zero vector.
C15_Witness ==
  /\ oi = 3
  /\ err = NoErr
  /\ Ops[1].type = "Conv" /\ Ops[1].input = <<"data", "cw", "cb">>
  /\ Ops[2].type = "Conv" /\ Ops[2].input = <<"data", "cw", "z">>
  /\ tensors_["z"] = NoTensor
  /\ \E j, k \in NodesOfKind("Conv") :
       /\ j < k
       /\ nodes[nodes[j].ins[3]].data = <<5, 6>>
       /\ nodes[nodes[k].ins[3]].data = <<0, 0>>

\* The kinds loadOperator has a branch for.
LoweredTypes ==
  {"Relu", "Conv", "MaxPool", "AveragePool", "Dropout", "SpatialBN", "Concat",
   "Sum", "Softmax", "FC", "LRN", "Mul", "Add", "ChannelShuffle", "Squeeze"}

\* All declared outputs of the record just lowered map to one node of the
\* graph.
OutputsAliasOneNode ==
  \E N \in DOMAIN nodes' :
    \A o \in Range(Ops[oi].output) : nodeByName_'[o] = N

\* Name n had no node, names a registered tensor, and the step mapped it to a
\* new private Variable holding that tensor.
Promoted(n) ==
  /\ nodeByName_[n] = NoNode
  /\ tensors_[n] # NoTensor
  /\ nodeByName_'[n] > Len(nodes)
  /\ nodeByName_'[n] \in DOMAIN nodes'
  /\ nodes'[nodeByName_'[n]] = PromotedVariable(n)

\* C16 (as claimed): after a step that lowers a record of a supported kind,
\* all declared outputs map to one node, and every other name maps as before
\* unless it is an input name of the record promoted from the registry.
C16_OnlyInputsPromoted ==
  [][(Lowering(LoweredTypes) /\ err' = NoErr)
       => (/\ OutputsAliasOneNode
           /\ \A n \in Names \ Range(Ops[oi].output) :
                \/ nodeByName_'[n] = nodeByName_[n]
                \/ n \in Range(Ops[oi].input) /\ Promoted(n))]_vars

\* C16 (amended): after a step that lowers a record of a supported kind, all
\* declared outputs map to one node, and every other name maps as before
\* unless it had no node and was promoted from the registry in that step:
\* an input name of the record, or, for a Softmax record, the name
\* "softmax_expected", which is no input of the record.
C16_OutputsAliasOneNode ==
  [][(Lowering(LoweredTypes) /\ err' = NoErr)
       => (/\ OutputsAliasOneNode
           /\ \A n \in Names \ Range(Ops[oi].output) :
                \/ nodeByName_'[n] = nodeByName_[n]
                \/ n \in Range(Ops[oi].input) /\ Promoted(n)
                \/ /\ Ops[oi].type = "Softmax"
                   /\ n = "softmax_expected"
                   /\ Promoted(n))]_vars

\* C16 witness: a Softmax record that promoted "softmax_expected" and a
\* Concat record with two outputs that promoted its input "s" have been
\* lowered: "y", first bound to the SoftMax node, and "z" both denote the
\* Concat node.
C16_Witness ==
  /\ oi = 3
  /\ err = NoErr
  /\ Ops[1].type = "Softmax"
  /\ Ops[2].type = "Concat"
  /\ Ops[2].output = <<"y", "z">>
  /\ nodeByName_["softmax_expected"] # NoNode
  /\ nodeByName_["s"] # NoNode
  /\ nodeByName_["y"] = nodeByName_["z"]
  /\ nodeByName_["y"] # NoNode
  /\ nodes[nodeByName_["y"]].kind = "Concat"
  /\ NodesOfKind("SoftMax") # {}

\* The Mul/Add nodes and the Broadcast nodes a step has added to the graph.
NewArithNodes ==
  {k \in DOMAIN nodes' : k > Len(nodes) /\ nodes'[k].kind \in {"Mul", "Add"}}

NewBroadcastNodes ==
  {k \in DOMAIN nodes' : k > Len(nodes) /\ nodes'[k].kind = "Broadcast"}

Rank(k) == Len(nodes'[k].dims)

\* C17: a step that lowers a Mul/Add record creates one node of the record's
\* kind. With broadcast = 1 its second operand is a new Broadcast node over
\* the second input, created with axis rank(in0) - rank(in1) when the record
\* says axis = -1 and with the record's axis otherwise; with broadcast = 0 no
\* Broadcast node is created and the second operand is the second input's
\* own node.
C17_BroadcastAxisResolved ==
  [][(Lowering({"Mul", "Add"}) /\ err' = NoErr)
       => \E k \in NewArithNodes :
            LET op == Ops[oi]
                dict == loadArgumentMap(op)
                in0 == nodes'[k].ins[1]
                fin == nodes'[k].ins[2]
                in1name == op.input[2]
            IN /\ NewArithNodes = {k}
               /\ nodes'[k].kind = op.type
               /\ IF dict["broadcast"].i = 1
                    THEN /\ NewBroadcastNodes = {fin}
                         /\ nodes'[fin].ins = <<nodeByName_'[in1name]>>
                         /\ nodes'[fin].attr =
                              <<IF dict["axis"].i = -1
                                  THEN Rank(in0) - Rank(nodes'[fin].ins[1])
                                  ELSE dict["axis"].i>>
                    ELSE /\ NewBroadcastNodes = {}
                         /\ fin = nodeByName_'[in1name]]_vars

\* C17 witness: Mul over a rank-4 and a rank-2 input with broadcast = 1 and
\* axis = -1 has been lowered with a Broadcast node of axis 2, and Add with
\* broadcast = 1 and axis = 1 with a Broadcast node of axis 1.
C17_Witness ==
  /\ oi = 3
  /\ err = NoErr
  /\ Ops[1] = Op("Mul", <<"data", "s">>, <<"y">>,
                 <<IntArg("broadcast", 1), IntArg("axis", -1)>>)
  /\ Ops[2] = Op("Add", <<"data", "s">>, <<"y">>,
                 <<IntArg("broadcast", 1), IntArg("axis", 1)>>)
  /\ \E m \in NodesOfKind("Mul"), a \in NodesOfKind("Add") :
       /\ Len(nodes[nodes[m].ins[1]].dims) = 4
       /\ nodes[nodes[m].ins[2]].kind = "Broadcast"
       /\ Len(nodes[nodes[nodes[m].ins[2]].ins[1]].dims) = 2
       /\ nodes[nodes[m].ins[2]].attr = <<2>>
       /\ nodes[nodes[a].ins[2]].attr = <<1>>

====
